---- MODULE Spec2Model ----
(***************************************************************************)
(* A model of train.py of SrSENet: main() (argument record, CUDA check,    *)
(* seeding, dataset loading, model construction, optional resume and       *)
(* pretrained loading, device placement, optimizer construction, the epoch *)
(* loop) and train() (the per-batch steps, the periodic loss logging and   *)
(* the checkpoint saved at the end of each epoch).                         *)
(*                                                                         *)
(* Tensors are abstracted symbolically.  The model weights are the         *)
(* sequence of optimizer updates applied to the initial weights; an update *)
(* is tagged with everything that determines it: the optimizer's step      *)
(* count (Adam's state), and the gradients it consumed, each gradient      *)
(* contribution named by the shuffle draw and the position of the batch it *)
(* was computed from.  Two weight values are equal in the model only if    *)
(* they were produced by the same updates from the same initial weights.   *)
(***************************************************************************)
EXTENDS Integers, Sequences, FiniteSets

VARIABLES
    argv,           \* the command line: each flag absent <<>> or given <<v>>
    opt,            \* the options record (global opt, train.py:36-37)
    cudaAvailable,  \* torch.cuda.is_available()
    datasetIsFile,  \* whether opt.datasets names a readable HDF5 file
    datasetLen,     \* number of batches the loader yields per epoch
    resumeFile,     \* what is on disk at opt.resume
    pretrainedFile, \* what is on disk at opt.pretrained
    pc,             \* position of the single main thread
    exc,            \* the uncaught exception, "none" while running
    stdout,         \* the missing-file messages printed so far
    rng,            \* the global RNG: [seed, draws]
    loaded,         \* whether the dataset and its loader exist
    built,          \* whether Net(...) has been constructed
    weights,        \* the model parameters
    device,         \* where the model lives: "none", "cpu" or "cuda"
    optimizer,      \* Adam: [made, steps]
    todo,           \* epochs the for loop of main() has still to run
    epoch,          \* the epoch train() was called with
    perm,           \* the shuffle draw that orders the current epoch
    iteration,      \* enumerate(..., 1) index of the current batch
    batchDev,       \* device of the current input/label
    grads,          \* accumulated .grad of the parameters
    ops,            \* what has been done to the current batch, in order
    calls,          \* the epochs train() has been called with, in order
    saves,          \* the save_checkpoint calls, in order
    losslog         \* the entries written to the 'loss' stream, in order

vars == <<argv, opt, cudaAvailable, datasetIsFile, datasetLen, resumeFile,
          pretrainedFile, pc, exc, stdout, rng, loaded, built,
          weights, device, optimizer, todo, epoch, perm, iteration, batchDev,
          grads, ops, calls, saves, losslog>>

env == <<argv, cudaAvailable, datasetIsFile, datasetLen, resumeFile, pretrainedFile>>

----------------------------------------------------------------------------
(* Bounds of the model. *)

\* Largest epoch number on the command line and in a checkpoint file.
MaxEpoch == 3

\* Largest number of log periods a dataset spans.
MaxLogs == 2

(* Program constants. *)

\* train.py:121, the logging period.
LogEvery == 10

\* train.py:27, the default of --start-epoch.
DefaultStartEpoch == 1

\* train.py:20, the default of --nEpochs.
DefaultNEpochs == 300

\* train.py:46
Seed == 774

----------------------------------------------------------------------------
(* Symbolic tensors. *)

\* The weights Net(...) starts with (train.py:59): no update applied.
Fresh == <<>>

\* The weights held by the file --pretrained names: an opaque value that no
\* update of this run produces.
PretrainedWeights == << [t |-> 0, g |-> {}] >>

\* The update one Adam step makes (train.py:119): determined by the step
\* count of the optimizer and the gradients accumulated in .grad.
UpdateOf(t, g) == [t |-> t, g |-> g]

AdamStep(w, t, g) == Append(w, UpdateOf(t, g))

\* The gradient contribution of the loss of batch it of shuffle draw p.
GradOf(p, it) == <<p, it>>

\* The shuffled order one pass over the loader draws from the global RNG
\* (DataLoader(shuffle=True), train.py:55-56 and 102): determined by the seed
\* and by how many orders were drawn since seeding.
DrawShuffle(r) == [r EXCEPT !.draws = r.draws + 1]

\* The weights after the len batches of one epoch, starting from weights w
\* with an optimizer that has taken t steps, under shuffle draw p: one
\* AdamStep per batch, each on the gradient of that batch alone.
EpochFrom(w, t, p, len) ==
    w \o [it \in 1..len |-> UpdateOf(t + it, {GradOf(p, it)})]

\* The weights an uninterrupted run from epoch 1 holds at the end of epoch e:
\* seeded once, one optimizer for the whole run, one shuffle per epoch.
RECURSIVE Uninterrupted(_, _)
Uninterrupted(e, len) ==
    IF e <= 0 THEN Fresh
    ELSE EpochFrom(Uninterrupted(e - 1, len), (e - 1) * len, e, len)

----------------------------------------------------------------------------
(* The command line and the files. *)

\* Batch counts around the multiples of the logging period.
DatasetLens ==
    {1} \cup {k * LogEvery + r : k \in 1..MaxLogs, r \in {0, 1}}

NoFile == [isfile |-> FALSE, epoch |-> 0, kind |-> "none", state |-> Fresh]

\* A checkpoint file: {"epoch": ..., "state_dict": ...}.  kind tells whether
\* "state_dict" holds a parameter mapping or a whole module object.
CheckpointFile(e, kind, state) ==
    [isfile |-> TRUE, epoch |-> e, kind |-> kind, state |-> state]

Kinds == {"mapping", "module"}

\* utils.save_checkpoint(model, rate, epoch): the file it writes.
save_checkpoint(w, e) == CheckpointFile(e, "mapping", w)

\* Files --resume may name: absent, or the checkpoint an uninterrupted run
\* over the same dataset saved at the end of some epoch.
ResumeFiles(len) ==
    {NoFile} \cup
    {CheckpointFile(e, k, Uninterrupted(e, len)) : e \in 1..MaxEpoch, k \in Kinds}

PretrainedFiles ==
    {NoFile} \cup {CheckpointFile(0, k, PretrainedWeights) : k \in Kinds}

\* A flag's value, or its default when the flag is absent.
FlagOr(flag, default) == IF flag = <<>> THEN default ELSE flag[1]

\* parser.parse_args() (train.py:15-32, 37) on the flags that drive main()
\* and train(): absent flags take their defaults.
parse_args(a) ==
    [cuda |-> a.cuda,
     resume |-> FlagOr(a.resume, ""),
     start_epoch |-> FlagOr(a.start_epoch, DefaultStartEpoch),
     nEpochs |-> FlagOr(a.nEpochs, DefaultNEpochs),
     pretrained |-> FlagOr(a.pretrained, ""),
     datasets |-> FlagOr(a.datasets, "")]

\* The command lines considered.
Argvs ==
    [cuda : BOOLEAN,
     resume : {<<>>, <<"resume.pth">>},
     start_epoch : {<<>>} \cup {<<s>> : s \in (DefaultStartEpoch + 1)..MaxEpoch},
     nEpochs : {<<n>> : n \in 1..MaxEpoch},
     pretrained : {<<>>, <<"pretrained.pth">>},
     datasets : {<<"train.h5">>}]

\* model.load_state_dict(x): x must be a parameter mapping.
LoadStateDictOk(kind) == kind = "mapping"

\* x.state_dict(): x must be a module object.
StateDictOfOk(kind) == kind = "module"

\* DatasetFromHdf5(path) raises when path is no HDF5 file.
DatasetFromHdf5Ok(isfile) == isfile

\* Mutant of EpochRange: range(opt.start_epoch, opt.nEpochs), the last epoch
\* dropped.
EpochRangeExclusive(s, n) == [i \in 1..(IF n > s THEN n - s ELSE 0) |-> s + i - 1]

\* range(opt.start_epoch, opt.nEpochs + 1), train.py:93
EpochRange(s, n) == [i \in 1..(IF n >= s THEN n - s + 1 ELSE 0) |-> s + i - 1]

\* Mutant of GlobalStep: the epoch not weighted by the batches per epoch.
GlobalStepUnweighted(len, e, it) == e + it

\* logger.add_scalar tag, train.py:124
GlobalStep(len, e, it) == len * e + it

\* train.py:121
ShouldLog(it) == it % LogEvery = 0

----------------------------------------------------------------------------
Init ==
    /\ cudaAvailable \in BOOLEAN
    /\ datasetIsFile \in BOOLEAN
    /\ datasetLen \in DatasetLens
    /\ argv \in Argvs
    /\ opt = parse_args(argv)
    /\ resumeFile \in (IF opt.resume = "" THEN {NoFile} ELSE ResumeFiles(datasetLen))
    /\ pretrainedFile \in (IF opt.pretrained = "" THEN {NoFile} ELSE PretrainedFiles)
    /\ pc = "check_cuda"
    /\ exc = "none"
    /\ stdout = <<>>
    /\ rng = [seed |-> 0, draws |-> 0]
    /\ loaded = FALSE
    /\ built = FALSE
    /\ weights = Fresh
    /\ device = "none"
    /\ optimizer = [made |-> FALSE, steps |-> 0]
    /\ todo = <<>>
    /\ epoch = 0
    /\ perm = 0
    /\ iteration = 0
    /\ batchDev = "none"
    /\ grads = {}
    /\ ops = <<>>
    /\ calls = <<>>
    /\ saves = <<>>
    /\ losslog = <<>>

\* An uncaught exception ends main().
Raise(e) == pc' = "raised" /\ exc' = e

----------------------------------------------------------------------------
(* main() *)

\* Mutant of CheckCuda: the availability of the device is not checked.
CheckCudaNoRaise ==
    /\ pc = "check_cuda"
    /\ pc' = "seed"
    /\ UNCHANGED <<env, opt, exc, stdout, rng, loaded, built, weights, device,
                   optimizer, todo, epoch, perm, iteration, batchDev, grads,
                   ops, calls, saves, losslog>>

\* train.py:42-44
CheckCuda ==
    /\ pc = "check_cuda"
    /\ IF opt.cuda /\ ~cudaAvailable
       THEN Raise("No GPU found, please run without --cuda")
       ELSE pc' = "seed" /\ exc' = exc
    /\ UNCHANGED <<env, opt, stdout, rng, loaded, built, weights, device,
                   optimizer, todo, epoch, perm, iteration, batchDev, grads,
                   ops, calls, saves, losslog>>

\* train.py:46-51
SetSeed ==
    /\ pc = "seed"
    /\ rng' = [seed |-> Seed, draws |-> 0]
    /\ pc' = "load_datasets"
    /\ UNCHANGED <<env, opt, exc, stdout, loaded, built, weights, device,
                   optimizer, todo, epoch, perm, iteration, batchDev, grads,
                   ops, calls, saves, losslog>>

\* Mutant of LoadDatasets: the failure to open the file is caught and the run
\* goes on.
LoadDatasetsCaught ==
    /\ pc = "load_datasets"
    /\ loaded' = DatasetFromHdf5Ok(datasetIsFile)
    /\ pc' = "build_model"
    /\ UNCHANGED <<env, opt, exc, stdout, rng, built, weights, device,
                   optimizer, todo, epoch, perm, iteration, batchDev, grads,
                   ops, calls, saves, losslog>>

\* train.py:53-56
LoadDatasets ==
    /\ pc = "load_datasets"
    /\ IF DatasetFromHdf5Ok(datasetIsFile)
       THEN loaded' = TRUE /\ pc' = "build_model" /\ exc' = exc
       ELSE loaded' = loaded /\ Raise("OSError: unable to open file")
    /\ UNCHANGED <<env, opt, stdout, rng, built, weights, device, optimizer,
                   todo, epoch, perm, iteration, batchDev, grads, ops, calls,
                   saves, losslog>>

\* train.py:58-60
BuildModel ==
    /\ pc = "build_model"
    /\ built' = TRUE
    /\ weights' = Fresh
    /\ pc' = "resume"
    /\ UNCHANGED <<env, opt, exc, stdout, rng, loaded, device, optimizer,
                   todo, epoch, perm, iteration, batchDev, grads, ops, calls,
                   saves, losslog>>

\* Mutant of Resume: no os.path.isfile test, torch.load raises on a missing
\* file.
ResumeNoIsfileCheck ==
    /\ pc = "resume"
    /\ IF opt.resume = ""
       THEN pc' = "pretrained" /\ UNCHANGED <<opt, weights, stdout, exc>>
       ELSE IF resumeFile.isfile
       THEN /\ opt' = [opt EXCEPT !.start_epoch = resumeFile.epoch + 1]
            /\ stdout' = stdout
            /\ IF LoadStateDictOk(resumeFile.kind)
               THEN weights' = resumeFile.state /\ pc' = "pretrained" /\ exc' = exc
               ELSE weights' = weights /\ Raise("load_state_dict: not a mapping")
       ELSE /\ Raise("FileNotFoundError")
            /\ UNCHANGED <<opt, weights, stdout>>
    /\ UNCHANGED <<env, rng, loaded, built, device, optimizer, todo, epoch,
                   perm, iteration, batchDev, grads, ops, calls, saves, losslog>>

\* Mutant of Resume: the start epoch is the checkpoint's epoch, which is then
\* trained a second time.
ResumeRepeatsEpoch ==
    /\ pc = "resume"
    /\ IF opt.resume = ""
       THEN pc' = "pretrained" /\ UNCHANGED <<opt, weights, stdout, exc>>
       ELSE IF resumeFile.isfile
       THEN /\ opt' = [opt EXCEPT !.start_epoch = resumeFile.epoch]
            /\ stdout' = stdout
            /\ IF LoadStateDictOk(resumeFile.kind)
               THEN weights' = resumeFile.state /\ pc' = "pretrained" /\ exc' = exc
               ELSE weights' = weights /\ Raise("load_state_dict: not a mapping")
       ELSE /\ stdout' = Append(stdout, "=> no checkpoint found")
            /\ pc' = "pretrained"
            /\ UNCHANGED <<opt, weights, exc>>
    /\ UNCHANGED <<env, rng, loaded, built, device, optimizer, todo, epoch,
                   perm, iteration, batchDev, grads, ops, calls, saves, losslog>>

\* train.py:63-70
Resume ==
    /\ pc = "resume"
    /\ IF opt.resume = ""
       THEN pc' = "pretrained" /\ UNCHANGED <<opt, weights, stdout, exc>>
       ELSE IF resumeFile.isfile
       THEN /\ opt' = [opt EXCEPT !.start_epoch = resumeFile.epoch + 1]
            /\ stdout' = stdout
            /\ IF LoadStateDictOk(resumeFile.kind)
               THEN weights' = resumeFile.state /\ pc' = "pretrained" /\ exc' = exc
               ELSE weights' = weights /\ Raise("load_state_dict: not a mapping")
       ELSE /\ stdout' = Append(stdout, "=> no checkpoint found")
            /\ pc' = "pretrained"
            /\ UNCHANGED <<opt, weights, exc>>
    /\ UNCHANGED <<env, rng, loaded, built, device, optimizer, todo, epoch,
                   perm, iteration, batchDev, grads, ops, calls, saves, losslog>>

\* Mutant of Pretrained: the pretrained weights are not loaded over resumed
\* ones.
PretrainedUnlessResumed ==
    /\ pc = "pretrained"
    /\ IF opt.pretrained = "" \/ (opt.resume # "" /\ resumeFile.isfile)
       THEN pc' = "set_gpu" /\ UNCHANGED <<weights, stdout, exc>>
       ELSE IF pretrainedFile.isfile
       THEN /\ stdout' = stdout
            /\ IF StateDictOfOk(pretrainedFile.kind)
               THEN weights' = pretrainedFile.state /\ pc' = "set_gpu" /\ exc' = exc
               ELSE weights' = weights /\ Raise("AttributeError: state_dict")
       ELSE /\ stdout' = Append(stdout, "=> no model found")
            /\ pc' = "set_gpu"
            /\ UNCHANGED <<weights, exc>>
    /\ UNCHANGED <<env, opt, rng, loaded, built, device, optimizer, todo,
                   epoch, perm, iteration, batchDev, grads, ops, calls, saves,
                   losslog>>

\* train.py:73-79
Pretrained ==
    /\ pc = "pretrained"
    /\ IF opt.pretrained = ""
       THEN pc' = "set_gpu" /\ UNCHANGED <<weights, stdout, exc>>
       ELSE IF pretrainedFile.isfile
       THEN /\ stdout' = stdout
            /\ IF StateDictOfOk(pretrainedFile.kind)
               THEN weights' = pretrainedFile.state /\ pc' = "set_gpu" /\ exc' = exc
               ELSE weights' = weights /\ Raise("AttributeError: state_dict")
       ELSE /\ stdout' = Append(stdout, "=> no model found")
            /\ pc' = "set_gpu"
            /\ UNCHANGED <<weights, exc>>
    /\ UNCHANGED <<env, opt, rng, loaded, built, device, optimizer, todo,
                   epoch, perm, iteration, batchDev, grads, ops, calls, saves,
                   losslog>>

\* train.py:81-87
SetGPU ==
    /\ pc = "set_gpu"
    /\ device' = IF opt.cuda THEN "cuda" ELSE "cpu"
    /\ pc' = "set_optimizer"
    /\ UNCHANGED <<env, opt, exc, stdout, rng, loaded, built, weights,
                   optimizer, todo, epoch, perm, iteration, batchDev, grads,
                   ops, calls, saves, losslog>>

\* train.py:89-90
SetOptimizer ==
    /\ pc = "set_optimizer"
    /\ optimizer' = [made |-> TRUE, steps |-> 0]
    /\ pc' = "range"
    /\ UNCHANGED <<env, opt, exc, stdout, rng, loaded, built, weights, device,
                   todo, epoch, perm, iteration, batchDev, grads, ops, calls,
                   saves, losslog>>

\* train.py:92-93, the range object of the for loop
EnterLoop ==
    /\ pc = "range"
    /\ todo' = EpochRange(opt.start_epoch, opt.nEpochs)
    /\ pc' = "for_epoch"
    /\ UNCHANGED <<env, opt, exc, stdout, rng, loaded, built, weights, device,
                   optimizer, epoch, perm, iteration, batchDev, grads, ops,
                   calls, saves, losslog>>

\* train.py:93-94, one turn of the for loop: call train() or fall out
ForEpoch ==
    /\ pc = "for_epoch"
    /\ IF todo = <<>>
       THEN pc' = "done" /\ UNCHANGED <<todo, epoch, calls>>
       ELSE /\ epoch' = Head(todo)
            /\ todo' = Tail(todo)
            /\ calls' = Append(calls, Head(todo))
            /\ pc' = "train"
    /\ UNCHANGED <<env, opt, exc, stdout, rng, loaded, built, weights, device,
                   optimizer, perm, iteration, batchDev, grads, ops, saves,
                   losslog>>

----------------------------------------------------------------------------
(* train(training_data_loader, optimizer, model, criterion, epoch) *)

\* train.py:98-102: the prints, model.train(), and the loader's iterator,
\* which draws this epoch's shuffled order
TrainBegin ==
    /\ pc = "train"
    /\ rng' = DrawShuffle(rng)
    /\ perm' = rng'.draws
    /\ iteration' = 0
    /\ pc' = "for_batch"
    /\ UNCHANGED <<env, opt, exc, stdout, loaded, built, weights, device,
                   optimizer, todo, epoch, batchDev, grads, ops, calls, saves,
                   losslog>>

\* train.py:102, one turn of the batch loop: next batch or fall out
ForBatch ==
    /\ pc = "for_batch"
    /\ IF iteration < datasetLen
       THEN /\ iteration' = iteration + 1
            /\ batchDev' = "loader"
            /\ ops' = <<>>
            /\ pc' = "to_device"
       ELSE /\ pc' = "save"
            /\ UNCHANGED <<iteration, batchDev, ops>>
    /\ UNCHANGED <<env, opt, exc, stdout, rng, loaded, built, weights, device,
                   optimizer, todo, epoch, perm, grads, calls, saves, losslog>>

\* train.py:104-113
ToDevice ==
    /\ pc = "to_device"
    /\ batchDev' = IF opt.cuda THEN "cuda" ELSE "cpu"
    /\ ops' = Append(ops, "to_device")
    /\ pc' = "forward"
    /\ UNCHANGED <<env, opt, exc, stdout, rng, loaded, built, weights, device,
                   optimizer, todo, epoch, perm, iteration, grads, calls,
                   saves, losslog>>

\* train.py:115
Forward ==
    /\ pc = "forward"
    /\ ops' = Append(ops, "forward")
    /\ pc' = "loss"
    /\ UNCHANGED <<env, opt, exc, stdout, rng, loaded, built, weights, device,
                   optimizer, todo, epoch, perm, iteration, batchDev, grads,
                   calls, saves, losslog>>

\* train.py:116
Loss ==
    /\ pc = "loss"
    /\ ops' = Append(ops, "loss")
    /\ pc' = "zero_grad"
    /\ UNCHANGED <<env, opt, exc, stdout, rng, loaded, built, weights, device,
                   optimizer, todo, epoch, perm, iteration, batchDev, grads,
                   calls, saves, losslog>>

\* Mutant of ZeroGrad: the gradients of the previous batches are kept.
ZeroGradSkipped ==
    /\ pc = "zero_grad"
    /\ grads' = grads
    /\ ops' = Append(ops, "zero_grad")
    /\ pc' = "backward"
    /\ UNCHANGED <<env, opt, exc, stdout, rng, loaded, built, weights, device,
                   optimizer, todo, epoch, perm, iteration, batchDev, calls,
                   saves, losslog>>

\* train.py:117
ZeroGrad ==
    /\ pc = "zero_grad"
    /\ grads' = {}
    /\ ops' = Append(ops, "zero_grad")
    /\ pc' = "backward"
    /\ UNCHANGED <<env, opt, exc, stdout, rng, loaded, built, weights, device,
                   optimizer, todo, epoch, perm, iteration, batchDev, calls,
                   saves, losslog>>

\* train.py:118: backward() adds the loss's gradient to .grad
Backward ==
    /\ pc = "backward"
    /\ grads' = grads \cup {GradOf(perm, iteration)}
    /\ ops' = Append(ops, "backward")
    /\ pc' = "step"
    /\ UNCHANGED <<env, opt, exc, stdout, rng, loaded, built, weights, device,
                   optimizer, todo, epoch, perm, iteration, batchDev, calls,
                   saves, losslog>>

\* train.py:119
OptimizerStep ==
    /\ pc = "step"
    /\ optimizer' = [optimizer EXCEPT !.steps = optimizer.steps + 1]
    /\ weights' = AdamStep(weights, optimizer.steps + 1, grads)
    /\ ops' = Append(ops, "step")
    /\ pc' = "log"
    /\ UNCHANGED <<env, opt, exc, stdout, rng, loaded, built, device, todo,
                   epoch, perm, iteration, batchDev, grads, calls, saves,
                   losslog>>

\* train.py:121-124
Log ==
    /\ pc = "log"
    /\ losslog' =
          IF ShouldLog(iteration)
          THEN Append(losslog, [step |-> GlobalStep(datasetLen, epoch, iteration),
                                epoch |-> epoch, iteration |-> iteration])
          ELSE losslog
    /\ pc' = "for_batch"
    /\ UNCHANGED <<env, opt, exc, stdout, rng, loaded, built, weights, device,
                   optimizer, todo, epoch, perm, iteration, batchDev, grads,
                   ops, calls, saves>>

\* Mutant of SaveCheckpoint: a checkpoint only every second epoch.
SaveCheckpointEverySecond ==
    /\ pc = "save"
    /\ saves' = IF epoch % 2 = 0 THEN Append(saves, save_checkpoint(weights, epoch))
                ELSE saves
    /\ pc' = "for_epoch"
    /\ UNCHANGED <<env, opt, exc, stdout, rng, loaded, built, weights, device,
                   optimizer, todo, epoch, perm, iteration, batchDev, grads,
                   ops, calls, losslog>>

\* train.py:126
SaveCheckpoint ==
    /\ pc = "save"
    /\ saves' = Append(saves, save_checkpoint(weights, epoch))
    /\ pc' = "for_epoch"
    /\ UNCHANGED <<env, opt, exc, stdout, rng, loaded, built, weights, device,
                   optimizer, todo, epoch, perm, iteration, batchDev, grads,
                   ops, calls, losslog>>

----------------------------------------------------------------------------
Next ==
    \/ CheckCuda
    \/ SetSeed
    \/ LoadDatasets
    \/ BuildModel
    \/ Resume
    \/ Pretrained
    \/ SetGPU
    \/ SetOptimizer
    \/ EnterLoop
    \/ ForEpoch
    \/ TrainBegin
    \/ ForBatch
    \/ ToDevice
    \/ Forward
    \/ Loss
    \/ ZeroGrad
    \/ Backward
    \/ OptimizerStep
    \/ Log
    \/ SaveCheckpoint

Spec == Init /\ [][Next]_vars

\* The single thread is never descheduled for good.
FairSpec == Spec /\ WF_vars(Next)

----------------------------------------------------------------------------
(* Vocabulary of the properties. *)

Parsed == parse_args(argv)

InitPcs == {"check_cuda", "seed", "load_datasets", "build_model", "resume",
            "pretrained", "set_gpu", "set_optimizer", "range"}

BatchPcs == {"to_device", "forward", "loss", "zero_grad", "backward", "step", "log"}

TrainPcs == {"train", "for_batch", "save"} \cup BatchPcs

\* --resume names an existing file / a path that is no file.
ResumeExists == opt.resume # "" /\ resumeFile.isfile
ResumeMissing == opt.resume # "" /\ ~resumeFile.isfile

PretrainedExists == opt.pretrained # "" /\ pretrainedFile.isfile
PretrainedMissing == opt.pretrained # "" /\ ~pretrainedFile.isfile

\* The resume block / the pretrained block of main() has been executed.
ResumeDone == built /\ pc \notin {"build_model", "resume"}
PretrainedDone ==
    /\ ResumeDone
    /\ pc # "pretrained"
    /\ exc # "load_state_dict: not a mapping"

\* The epochs s, s+1, ..., n in increasing order.
Epochs(s, n) == [i \in 1..(IF s > n THEN 0 ELSE n + 1 - s) |-> s + (i - 1)]

IsPrefix(a, b) == Len(a) <= Len(b) /\ \A i \in 1..Len(a) : a[i] = b[i]

\* The start epoch the run is to use: the resumed checkpoint's epoch + 1 when
\* --resume names an existing file, else the configured one.
StartEpoch == IF ResumeExists THEN resumeFile.epoch + 1 ELSE Parsed.start_epoch

----------------------------------------------------------------------------
\* C1: main() calls train() exactly once for each epoch s, s+1, ..., n in
\* increasing order and then terminates, where s is the configured start
\* epoch (default 1) without a resumed checkpoint and the checkpoint's epoch
\* + 1 when --resume names an existing file; when s > n no epoch is run.
\* At every moment the calls made so far are the first epochs of s..n, the
\* calls are all of s..n when main() returns, and main() does end.
EpochLoopRunsStartToN ==
    /\ [](ResumeDone => IsPrefix(calls, Epochs(StartEpoch, Parsed.nEpochs)))
    /\ [](pc = "done" => calls = Epochs(StartEpoch, Parsed.nEpochs))
    /\ <>(pc \in {"done", "raised"})

\* A resumed run that has returned after running two epochs.
EpochLoopWitness ==
    /\ pc = "done"
    /\ ResumeExists
    /\ Len(calls) = 2
    /\ calls[1] = resumeFile.epoch + 1

----------------------------------------------------------------------------
\* C2: every epoch train() runs to its end saves exactly one checkpoint, with
\* that epoch's number, unconditionally; the save comes after the optimizer
\* step of the epoch's last batch and before the first batch of the next
\* epoch, and never in the middle of an epoch.  So: while train() runs its
\* k-th call there are k-1 checkpoints, between calls there are as many as
\* calls; the k-th checkpoint carries the k-th epoch and the weights left by
\* the update of the last batch of that epoch's pass over the loader.
OneCheckpointPerEpoch ==
    /\ Len(saves) = Len(calls) - (IF pc \in TrainPcs THEN 1 ELSE 0)
    /\ \A k \in 1..Len(saves) :
          /\ saves[k].epoch = calls[k]
          /\ Len(saves[k].state) > 0
          /\ saves[k].state[Len(saves[k].state)].g = {<<k, datasetLen>>}
    /\ (pc = "for_epoch" /\ saves # <<>>) =>
          /\ saves[Len(saves)].state = weights
          /\ iteration = datasetLen
          /\ ops[Len(ops)] = "step"

\* Two epochs saved, and the third epoch is at its first batch.
OneCheckpointWitness ==
    /\ Len(saves) = 2
    /\ Len(calls) = 3
    /\ pc = "forward"
    /\ iteration = 1

----------------------------------------------------------------------------
\* C3 as claimed: when --resume or --pretrained names a path that is not an
\* existing file, no exception is raised, the model keeps its freshly
\* initialized weights and the start epoch keeps its configured value.
MissingFileKeepsFreshAndStart ==
    (PretrainedDone /\ (ResumeMissing \/ PretrainedMissing)) =>
        /\ exc = "none"
        /\ pc \in InitPcs => weights = Fresh
        /\ opt.start_epoch = Parsed.start_epoch

\* C3 as amended: a flag naming a path that is not an existing file only
\* prints a message and its load is skipped without an exception, so that
\* weights and start epoch are what they would be had the flag not been
\* given: fresh weights and the configured start epoch when no other flag
\* names an existing file, otherwise what the other flag's load made them;
\* training then runs the epoch loop from that start epoch.
MissingFileIsSkipped ==
    /\ (ResumeDone /\ ResumeMissing) =>
          /\ exc \in {"none", "AttributeError: state_dict"}
          /\ opt = Parsed
          /\ IsPrefix(<<"=> no checkpoint found">>, stdout)
          /\ pc = "pretrained" => weights = Fresh
    /\ (PretrainedDone /\ PretrainedMissing) =>
          /\ exc = "none"
          /\ stdout[Len(stdout)] = "=> no model found"
          /\ opt.start_epoch = StartEpoch
          /\ pc \in InitPcs =>
                weights = (IF ResumeExists THEN resumeFile.state ELSE Fresh)
          /\ pc = "done" => calls = Epochs(StartEpoch, Parsed.nEpochs)
    /\ (PretrainedDone /\ (ResumeMissing \/ PretrainedMissing)
          /\ ~ResumeExists /\ ~PretrainedExists) =>
          /\ exc = "none"
          /\ opt = Parsed
          /\ pc \in InitPcs => weights = Fresh
          /\ pc = "done" => calls = Epochs(Parsed.start_epoch, Parsed.nEpochs)

\* Both paths are missing and the run has trained an epoch from scratch.
MissingFileWitness ==
    /\ ResumeMissing
    /\ PretrainedMissing
    /\ pc = "done"
    /\ Len(stdout) = 2
    /\ Len(calls) >= 1

----------------------------------------------------------------------------
\* C4: with --cuda and no CUDA device main() raises at once: the dataset is
\* never loaded, the model never built, no training step executed and no
\* checkpoint written.
NoCudaIsFatal ==
    (opt.cuda /\ ~cudaAvailable) =>
        /\ pc \in {"check_cuda", "raised"}
        /\ pc = "raised" => exc = "No GPU found, please run without --cuda"
        /\ ~loaded
        /\ ~built
        /\ ~optimizer.made
        /\ optimizer.steps = 0
        /\ calls = <<>>
        /\ saves = <<>>

\* The run has died of the missing device.
NoCudaWitness ==
    /\ opt.cuda
    /\ ~cudaAvailable
    /\ pc = "raised"

----------------------------------------------------------------------------
\* C5: resuming from the checkpoint an uninterrupted run saved at epoch E and
\* continuing to epoch E+k yields the parameters of the uninterrupted run
\* from epoch 1 to E+k: every checkpoint the resumed run saves holds the
\* weights the uninterrupted run has at the end of that epoch.
ResumeEqualsUninterrupted ==
    (ResumeExists /\ opt.pretrained = "") =>
        \A k \in 1..Len(saves) :
            saves[k].state = Uninterrupted(saves[k].epoch, datasetLen)

----------------------------------------------------------------------------
\* C6 as claimed: after parse_args returns no field of opt ever changes.
OptNeverMutated == opt = Parsed

\* C6 as amended: after parse_args returns every field of opt other than
\* start_epoch keeps its parsed value; start_epoch is overwritten once, by
\* the resume block when --resume names an existing file, with the
\* checkpoint's epoch + 1, and keeps its parsed value on every other path.
OnlyResumeRewritesStartEpoch ==
    /\ \A f \in DOMAIN opt \ {"start_epoch"} : opt[f] = Parsed[f]
    /\ opt.start_epoch =
          (IF ResumeDone /\ ResumeExists THEN resumeFile.epoch + 1
           ELSE Parsed.start_epoch)

\* A resumed run whose start epoch is no longer the parsed one.
StartEpochRewrittenWitness ==
    /\ ResumeExists
    /\ pc = "done"
    /\ opt.start_epoch # Parsed.start_epoch
    /\ calls # <<>>

----------------------------------------------------------------------------
\* Batches whose iteration has passed line 121-124 in the current call:
LoggedIterations ==
    IF pc \in BatchPcs THEN iteration - 1
    ELSE IF pc \in {"for_batch", "save"} THEN iteration
    ELSE 0

\* Calls of train() that have returned.
EpochsLogged == Len(calls) - (IF pc \in TrainPcs THEN 1 ELSE 0)

\* C7: the loss is logged exactly at the iterations whose 1-based index is a
\* multiple of 10 (an epoch of fewer than 10 batches logs nothing), each
\* entry is tagged with step = (batches per epoch) * epoch + iteration, and
\* the steps written to the 'loss' stream increase strictly over the run.
LossLogEveryTenthMonotone ==
    /\ \A k \in 1..Len(losslog) :
          /\ losslog[k].iteration >= 1
          /\ losslog[k].iteration % 10 = 0
          /\ losslog[k].step = datasetLen * losslog[k].epoch + losslog[k].iteration
    /\ \A j, k \in 1..Len(losslog) : j < k => losslog[j].step < losslog[k].step
    /\ Len(losslog) = EpochsLogged * (datasetLen \div 10) + (LoggedIterations \div 10)
    /\ datasetLen < 10 => losslog = <<>>

\* Two entries in one epoch and one in the next.
LossLogWitness ==
    /\ Len(losslog) >= 3
    /\ losslog[1].epoch = losslog[2].epoch
    /\ losslog[2].epoch < losslog[3].epoch
    /\ losslog[2].iteration > losslog[3].iteration

----------------------------------------------------------------------------
\* C8: when the dataset path is missing the run raises before the training
\* loop: no call of train(), no forward pass, no optimizer step and no
\* checkpoint precede the failure, and nothing catches it.
MissingDatasetIsFatal ==
    ~datasetIsFile =>
        /\ pc \in {"check_cuda", "seed", "load_datasets", "raised"}
        /\ (pc = "raised" /\ ~(opt.cuda /\ ~cudaAvailable)) =>
              exc = "OSError: unable to open file"
        /\ ~loaded
        /\ ~built
        /\ calls = <<>>
        /\ ops = <<>>
        /\ optimizer.steps = 0
        /\ weights = Fresh
        /\ saves = <<>>

\* The run has died of the missing dataset.
MissingDatasetWitness ==
    /\ ~datasetIsFile
    /\ pc = "raised"
    /\ exc = "OSError: unable to open file"

----------------------------------------------------------------------------
\* The steps of train.py:104-119 on one batch.
BatchOrder == <<"to_device", "forward", "loss", "zero_grad", "backward", "step">>

\* The weights main() hands to the epoch loop.
LoadedWeights ==
    IF PretrainedExists THEN pretrainedFile.state
    ELSE IF ResumeExists THEN resumeFile.state
    ELSE Fresh

\* Batches whose optimizer step has been taken in the current call.
SteppedIterations ==
    IF pc \in BatchPcs \ {"log"} THEN iteration - 1
    ELSE IF pc \in {"for_batch", "save", "log"} THEN iteration
    ELSE 0

\* C9: for every batch train() moves input and label to the device, runs the
\* forward pass, computes the loss, zeroes the gradients, back-propagates and
\* takes the optimizer step, in that order, so that the step consumes the
\* gradient of this batch's loss alone; the parameters are changed by exactly
\* one optimizer step per batch and by nothing else during the loop.
BatchStepsInOrder ==
    /\ IsPrefix(ops, BatchOrder)
    /\ pc \in BatchPcs =>
          /\ Len(ops) < 6 => pc = BatchOrder[Len(ops) + 1]
          /\ Len(ops) = 6 => pc = "log"
          /\ batchDev = (IF pc = "to_device" THEN "loader"
                         ELSE IF opt.cuda THEN "cuda" ELSE "cpu")
    /\ pc = "step" => grads = {<<perm, iteration>>}
    /\ optimizer.made =>
          /\ optimizer.steps = EpochsLogged * datasetLen + SteppedIterations
          /\ Len(weights) = Len(LoadedWeights) + optimizer.steps
          /\ IsPrefix(LoadedWeights, weights)
          /\ \A k \in 1..optimizer.steps :
                weights[Len(LoadedWeights) + k] =
                    [t |-> k,
                     g |-> {<<((k - 1) \div datasetLen) + 1,
                              ((k - 1) % datasetLen) + 1>>}]

\* The second batch of the second epoch has just been stepped.
BatchStepsWitness ==
    /\ pc = "log"
    /\ Len(calls) = 2
    /\ iteration = 2
    /\ ops = BatchOrder

----------------------------------------------------------------------------
\* No batch has been touched yet.
TrainingNotStarted ==
    pc \in InitPcs \/ (pc = "for_epoch" /\ calls = <<>>)

\* C10: the resume load comes before the pretrained load, so when both flags
\* name existing files training starts from the pretrained weights while the
\* start epoch is the resumed checkpoint's epoch + 1; the pretrained load on
\* its own never changes the start epoch.
PretrainedOverridesResumedWeights ==
    /\ (PretrainedDone /\ exc = "none" /\ ResumeExists /\ PretrainedExists) =>
          /\ opt.start_epoch = resumeFile.epoch + 1
          /\ TrainingNotStarted => weights = pretrainedFile.state
          /\ calls # <<>> => calls[1] = resumeFile.epoch + 1
          /\ IsPrefix(pretrainedFile.state, weights)
    /\ (PretrainedDone /\ PretrainedExists /\ ~ResumeExists) =>
          /\ opt.start_epoch = Parsed.start_epoch
          /\ calls # <<>> => calls[1] = Parsed.start_epoch

\* Both files were loaded and the first epoch, the resumed one + 1, has begun.
PretrainedOverridesWitness ==
    /\ ResumeExists
    /\ PretrainedExists
    /\ pc = "for_batch"
    /\ calls = <<resumeFile.epoch + 1>>
    /\ weights = PretrainedWeights

====
